---- MODULE Spec2Model ----
(***************************************************************************)
(* A model of src/app.py: the Flask handlers of the S3 and EC2 API and of  *)
(* the repository clone, and the helpers they call, run against a model of *)
(* the AWS backend and of the directories around REPOS_BASE.               *)
(*                                                                         *)
(* State: the configuration fixed at import (which boto3 clients exist,    *)
(* APP_REGION), the backend (buckets and their objects, the default VPC,   *)
(* subnets, security groups, instances), the directories on disk and, per  *)
(* request worker, the handler's position, its locals, the remote calls it *)
(* has issued and its response.  Every remote call answers as the backend  *)
(* state dictates or fails with an injected fault (missing credentials, a  *)
(* ClientError of the backend).                                            *)
(*                                                                         *)
(* The S3 handlers, the EC2 handlers and the clone handler share no state, *)
(* so a behaviour exercises one family: workload says which.  Launch       *)
(* requests interleave on two workers; the other handlers run one request  *)
(* at a time.                                                              *)
(***************************************************************************)
EXTENDS Integers, Sequences, FiniteSets, TLC

\* ------------------------------------------------------------- bounds
MaxKeys == 2
PageSize == 1
MaxInstances == 1
MaxRepos == 1

\* ------------------------------------------------------------- values
None == "None"
Workers == {"w1", "w2"}
Regions == {"us-east-1", "eu-west-3", "eu-west-1"}
BucketNames == {"logs", "test-x"}
Keys == 1..MaxKeys

VARIABLES
  workload,   \* "s3", "ec2" or "repo": the handler family this behaviour exercises
  clients,    \* how many of s3, ec2, ssm were constructed, in that order
  appRegion,  \* APP_REGION
  buckets,    \* backend: bucket name -> bucket
  vpcs,       \* backend: the VPCs, each with its isDefault mark
  subnets,    \* backend: the subnets
  sgs,        \* backend: the security groups
  instances,  \* backend: the instances, in creation order
  pc,         \* worker -> position in its handler
  req,        \* worker -> the request it handles
  loc,        \* worker -> the handler's locals
  calls,      \* worker -> the remote calls the request has issued, in order
  resp,       \* worker -> the response of the finished request
  atStart,    \* worker -> the backend as the request found it (history)
  ensured,    \* the results of the _ensure_sg calls that returned (history)
  lastCreate, \* the create_bucket success a listing request follows (history)
  dirs,       \* file system: the directories at and around REPOS_BASE
  clone       \* the locals of the clone_repo request being answered

vars == <<workload, clients, appRegion, buckets, vpcs, subnets, sgs, instances,
          pc, req, loc, calls, resp, atStart, ensured, lastCreate, dirs, clone>>

config == <<workload, clients, appRegion>>
s3backend == <<buckets>>
ec2backend == <<vpcs, subnets, sgs, instances>>
repos == <<dirs, clone>>

\* ------------------------------------------------------------- clients
s3 == clients >= 1
ec2 == clients >= 2
ssm == clients >= 3

\* ------------------------------------------------------------- exceptions
NoExc == [type |-> "none", code |-> ""]
ClientError(code) == [type |-> "ClientError", code |-> code]
NoCredentialsError == [type |-> "NoCredentialsError", code |-> ""]
EndpointConnectionError == [type |-> "EndpointConnectionError", code |-> ""]
RuntimeError(msg) == [type |-> "RuntimeError", code |-> msg]
IndexError == [type |-> "IndexError", code |-> "list index out of range"]

\* A fault the transport or the backend may answer any remote call with.
InjectedFaults == {NoCredentialsError, ClientError("AccessDenied")}

\* The outcome of a remote call: an injected fault, else what the backend
\* state dictates (natural: NoExc or the backend's own error).
Outcomes(natural) == {natural} \cup InjectedFaults

\* str(e): the message, as the phrases it is made of.
Str(e) ==
  CASE e.type = "ClientError" -> <<"An error occurred", e.code>>
    [] e.type = "NoCredentialsError" -> <<"Unable to locate credentials">>
    [] e.type = "EndpointConnectionError" -> <<"Could not connect to the endpoint URL">>
    [] e.type = "NoRegionError" -> <<"You must specify a region.">>
    [] OTHER -> <<e.code>>

Contains(msg, phrase) == \E i \in 1..Len(msg) : msg[i] = phrase

demo_types == {"NoCredentialsError", "EndpointConnectionError", "NoRegionError"}

DemoModeAlways(e) == TRUE

DemoModeAnyClientError(e) == e.type \in demo_types \cup {"ClientError"}

_demo_mode_from_exc(e) ==
  e.type \in demo_types \/ Contains(Str(e), "Unable to locate credentials")

\* ------------------------------------------------------------- requests
\* A remote call as the request's log keeps it: the API, the resource it
\* names, a detail of the arguments, the keys listed or sent, whether the
\* listing is truncated, whether the answer carries per-object Errors, and
\* the exception raised (NoExc: it returned).
Call(api, target, detail, keys, more, exc) ==
  [api |-> api, target |-> target, detail |-> detail, keys |-> keys,
   more |-> more, errors |-> FALSE, exc |-> exc]

Failed(c) == c.exc # NoExc

IdleReq == [op |-> "none", name |-> None, region |-> None, key |-> 0, ami_id |-> None]

NoLoc == [marker |-> 0, page |-> {}, more |-> FALSE, ami_id |-> None,
          vpc_id |-> None, subnet_id |-> None, sg_id |-> None, iid |-> None,
          second |-> FALSE]

NoResp == [status |-> 0, ok |-> FALSE, demo |-> FALSE, error |-> <<>>,
           name |-> None, region |-> None, instanceId |-> None, items |-> <<>>]

\* jsonify({"ok": True, ...})
Ok(name, region) == [NoResp EXCEPT !.status = 200, !.ok = TRUE, !.name = name, !.region = region]

\* jsonify({"ok": True, ..., "demo": True})
Demo(name, region) == [Ok(name, region) EXCEPT !.demo = TRUE]

\* jsonify({"error": ...}), 400
Error(msg) == [NoResp EXCEPT !.status = 400, !.error = msg]

\* jsonify([...])
Listing(items) == [NoResp EXCEPT !.status = 200, !.items = items]

\* except Exception as e: demo answer or error answer
Except(e, demo) == IF _demo_mode_from_exc(e) THEN demo ELSE Error(Str(e))

AllIdle == \A w \in Workers : pc[w] = "idle"

Backend == [buckets |-> buckets, sgs |-> sgs, instances |-> instances]

\* atStart of a worker that handles no request
NoSnapshot == [buckets |-> <<>>, sgs |-> {}, instances |-> <<>>]

\* The handler of worker w returns r, having issued the calls cs.
Return(w, r, cs) ==
  /\ pc' = [pc EXCEPT ![w] = "done"]
  /\ resp' = [resp EXCEPT ![w] = r]
  /\ calls' = [calls EXCEPT ![w] = cs]

\* A handler that runs in one step: request q, answer r, calls cs.
Handle(w, q, r, cs) ==
  /\ req' = [req EXCEPT ![w] = q]
  /\ atStart' = [atStart EXCEPT ![w] = Backend]
  /\ Return(w, r, cs)
  /\ UNCHANGED <<loc, ensured>>

\* ------------------------------------------------------------- S3 backend
NoBucket == [exists |-> FALSE, loc |-> None, versioned |-> FALSE, vers |-> {}, dms |-> {}]
NewBucketUnconstrained(lc) ==
  [exists |-> TRUE, loc |-> None, versioned |-> FALSE, vers |-> {}, dms |-> {}]

NewBucket(lc) == [exists |-> TRUE, loc |-> lc, versioned |-> FALSE, vers |-> {}, dms |-> {}]

Falsy(x) == x \in {None, ""}

\* ------------------------------------------------------------- create_bucket
LocationConstraintAlways(region) == region

\* CreateBucketConfiguration of the create call: None when it is left out
LocationConstraint(region) == IF region = "us-east-1" THEN None ELSE region

create_bucket(w) ==
  /\ workload = "s3" /\ AllIdle
  /\ \E name \in BucketNames \cup {None, ""}, given \in Regions \cup {None} :
       LET region == IF Falsy(given) THEN appRegion ELSE given
           q == [IdleReq EXCEPT !.op = "create_bucket", !.name = name, !.region = given]
       IN  IF Falsy(name)
             THEN /\ Handle(w, q, Error(<<"bucket_name required">>), <<>>)
                  /\ UNCHANGED buckets
           ELSE IF ~s3
             THEN /\ Handle(w, q, Demo(name, region), <<>>)
                  /\ UNCHANGED buckets
           ELSE \E e \in Outcomes(IF buckets[name].exists
                                    THEN ClientError("BucketAlreadyOwnedByYou")
                                    ELSE NoExc) :
                  LET lc == LocationConstraint(region)
                      c == Call("s3.create_bucket", name, lc, {}, FALSE, e)
                  IN  IF e = NoExc
                        THEN /\ buckets' = [buckets EXCEPT ![name] = NewBucket(lc)]
                             /\ Handle(w, q, Ok(name, region), <<c>>)
                        ELSE /\ UNCHANGED buckets
                             /\ Handle(w, q, Except(e, Demo(name, region)), <<c>>)
  /\ lastCreate' = NoResp
  /\ UNCHANGED <<config, repos, ec2backend>>

\* ------------------------------------------------------------- upload_to_bucket
\* The object key is taken as computed (lines 410-413); the file is any file.
upload_to_bucket(w) ==
  /\ workload = "s3" /\ AllIdle
  /\ \E bucket \in BucketNames \cup {None}, key \in Keys, file \in BOOLEAN :
       LET q == [IdleReq EXCEPT !.op = "upload_to_bucket", !.name = bucket, !.key = key]
       IN  IF Falsy(bucket) \/ ~file
             THEN /\ Handle(w, q, Error(<<"bucket and file are required">>), <<>>)
                  /\ UNCHANGED buckets
           ELSE IF ~s3
             THEN /\ Handle(w, q, Demo(bucket, None), <<>>)
                  /\ UNCHANGED buckets
           ELSE \E e \in Outcomes(IF buckets[bucket].exists
                                    THEN NoExc ELSE ClientError("NoSuchBucket")) :
                  LET c == Call("s3.put_object", bucket, None, {key}, FALSE, e)
                      b == buckets[bucket]
                  IN  IF e = NoExc
                        THEN /\ buckets' = [buckets EXCEPT ![bucket] =
                                   [b EXCEPT !.vers = b.vers \cup {key},
                                             !.dms = b.dms \ {key}]]
                             /\ Handle(w, q, Ok(bucket, None), <<c>>)
                        ELSE /\ UNCHANGED buckets
                             /\ Handle(w, q, Except(e, Demo(bucket, None)), <<c>>)
  /\ lastCreate' = NoResp
  /\ UNCHANGED <<config, repos, ec2backend>>

\* ------------------------------------------------------------- list_buckets
\* The backend lists buckets by name.
BucketOrder == <<"logs", "test-x">>

DemoBuckets == <<[name |-> "demo-bucket-a", region |-> "eu-west-3"],
                 [name |-> "demo-bucket-b", region |-> "eu-west-1"]>>

BucketRegionNoDefault(lc, e) == IF e # NoExc THEN "unknown" ELSE lc

\* _bucket_region, given the LocationConstraint stored and the outcome e of
\* get_bucket_location
_bucket_region(lc, e) ==
  IF ~s3 THEN "eu-west-3"
  ELSE IF e # NoExc THEN "unknown"
  ELSE IF lc \in {None, ""} THEN "us-east-1" ELSE lc

list_buckets(w) ==
  /\ workload = "s3" /\ AllIdle
  /\ LET q == [IdleReq EXCEPT !.op = "list_buckets"]
         listed == SelectSeq(BucketOrder, LAMBDA b : buckets[b].exists)
         names == {listed[i] : i \in 1..Len(listed)}
     IN  IF ~s3 THEN Handle(w, q, Listing(DemoBuckets), <<>>)
         ELSE \E e \in Outcomes(NoExc) :
                LET c == Call("s3.list_buckets", None, None, {}, FALSE, e)
                IN  IF e # NoExc
                      THEN Handle(w, q, Except(e, Listing(DemoBuckets)), <<c>>)
                      ELSE \E f \in [names -> Outcomes(NoExc)] :
                             Handle(w, q,
                               Listing([i \in 1..Len(listed) |->
                                  [name |-> listed[i],
                                   region |-> _bucket_region(buckets[listed[i]].loc, f[listed[i]])]]),
                               <<c>> \o [i \in 1..Len(listed) |->
                                  Call("s3.get_bucket_location", listed[i], None, {}, FALSE,
                                       f[listed[i]])])
  /\ UNCHANGED <<config, repos, lastCreate, s3backend, ec2backend>>

\* ------------------------------------------------------------- delete_bucket
Min(S) == CHOOSE x \in S : \A y \in S : x <= y
Max(S) == CHOOSE x \in S : \A y \in S : x >= y

RECURSIVE FirstN(_, _)
\* the n smallest keys of S
FirstN(S, n) ==
  IF n = 0 \/ S = {} THEN {} ELSE {Min(S)} \cup FirstN(S \ {Min(S)}, n - 1)

\* The handler of worker w goes on at position p with locals l, having
\* issued the call c.
Step(w, p, l, c) ==
  /\ pc' = [pc EXCEPT ![w] = p]
  /\ loc' = [loc EXCEPT ![w] = l]
  /\ calls' = [calls EXCEPT ![w] = Append(@, c)]
  /\ UNCHANGED <<req, resp, atStart>>

\* What the listing of a phase of _empty_bucket enumerates.
Entries(b, phase) == IF phase = "versions" THEN b.vers \cup b.dms ELSE b.vers

\* The bucket after the backend deleted the keys of a batch: by version id
\* the entries are gone; by key an object of a versioned bucket is left
\* behind a delete marker.
Deleted(b, phase, keys) ==
  IF phase = "versions"
    THEN [b EXCEPT !.vers = @ \ keys, !.dms = @ \ keys]
  ELSE IF b.versioned
    THEN [b EXCEPT !.vers = @ \ keys, !.dms = @ \cup (b.vers \cap keys)]
  ELSE [b EXCEPT !.vers = @ \ keys]

ListApi(phase) == IF phase = "versions" THEN "s3.list_object_versions" ELSE "s3.list_objects_v2"

\* Where _empty_bucket goes on when a phase ends.
AfterPhase(phase) == IF phase = "versions" THEN "objects_list" ELSE "delete_bucket"

AfterRaiseSkipsToDelete(phase) == "delete_bucket"

\* Where _empty_bucket goes on when a call of a phase raises: except
\* Exception: pass.
AfterRaise(phase) == AfterPhase(phase)

delete_bucket_begin(w) ==
  /\ workload = "s3" /\ AllIdle
  /\ \E bucket \in BucketNames :
       LET q == [IdleReq EXCEPT !.op = "delete_bucket", !.name = bucket]
       IN  IF ~s3
             THEN Handle(w, q, Demo(bucket, None), <<>>)
             ELSE /\ req' = [req EXCEPT ![w] = q]
                  /\ atStart' = [atStart EXCEPT ![w] = Backend]
                  /\ pc' = [pc EXCEPT ![w] = "versions_list"]
                  /\ UNCHANGED <<loc, calls, resp, ensured>>
  /\ lastCreate' = NoResp
  /\ UNCHANGED <<config, repos, s3backend, ec2backend>>

\* One page of the paginator of a phase.
list_page(w, phase) ==
  LET bucket == req[w].name
      b == buckets[bucket]
      above == {k \in Entries(b, phase) : k > loc[w].marker}
      page == FirstN(above, PageSize)
      more == above # page
  IN  /\ \E e \in Outcomes(IF b.exists THEN NoExc ELSE ClientError("NoSuchBucket")) :
           IF e # NoExc
             THEN Step(w, AfterRaise(phase), NoLoc,
                       Call(ListApi(phase), bucket, phase, {}, FALSE, e))
           ELSE IF page = {}
             THEN Step(w, AfterPhase(phase), NoLoc,
                       Call(ListApi(phase), bucket, phase, {}, FALSE, e))
           ELSE Step(w, phase \o "_delete",
                     [loc[w] EXCEPT !.page = page, !.more = more],
                     Call(ListApi(phase), bucket, phase, page, more, e))
      /\ UNCHANGED <<config, repos, lastCreate, s3backend, ec2backend, ensured>>

\* delete_objects on the page's batch.  The backend deletes the batch, or
\* answers with per-object Errors and deletes nothing, or the call raises.
delete_page(w, phase) ==
  LET bucket == req[w].name
      b == buckets[bucket]
      page == loc[w].page
      next == IF loc[w].more THEN phase \o "_list" ELSE AfterPhase(phase)
      l == [NoLoc EXCEPT !.marker = IF loc[w].more THEN Max(page) ELSE 0]
  IN  /\ \E e \in Outcomes(IF b.exists THEN NoExc ELSE ClientError("NoSuchBucket")) :
           IF e # NoExc
             THEN /\ Step(w, AfterRaise(phase), NoLoc,
                          Call("s3.delete_objects", bucket, phase, page, loc[w].more, e))
                  /\ UNCHANGED buckets
             ELSE \/ /\ Step(w, next, l,
                              Call("s3.delete_objects", bucket, phase, page, loc[w].more, e))
                     /\ buckets' = [buckets EXCEPT ![bucket] = Deleted(b, phase, page)]
                  \/ /\ Step(w, next, l,
                              [Call("s3.delete_objects", bucket, phase, page, loc[w].more, e)
                                 EXCEPT !.errors = TRUE])
                     /\ UNCHANGED buckets
      /\ UNCHANGED <<config, repos, lastCreate, ec2backend, ensured>>

versions_list(w) == pc[w] = "versions_list" /\ list_page(w, "versions")
versions_delete(w) == pc[w] = "versions_delete" /\ delete_page(w, "versions")
objects_list(w) == pc[w] = "objects_list" /\ list_page(w, "objects")
objects_delete(w) == pc[w] = "objects_delete" /\ delete_page(w, "objects")

delete_bucket_call(w) ==
  /\ pc[w] = "delete_bucket"
  /\ LET bucket == req[w].name
         b == buckets[bucket]
     IN  \E e \in Outcomes(IF ~b.exists THEN ClientError("NoSuchBucket")
                            ELSE IF b.vers \cup b.dms # {} THEN ClientError("BucketNotEmpty")
                            ELSE NoExc) :
           LET c == Call("s3.delete_bucket", bucket, None, {}, FALSE, e)
           IN  /\ Return(w, IF e = NoExc THEN Ok(bucket, None)
                               ELSE Except(e, Demo(bucket, None)),
                         Append(calls[w], c))
               /\ buckets' = IF e = NoExc THEN [buckets EXCEPT ![bucket] = NoBucket]
                                          ELSE buckets
  /\ UNCHANGED <<config, repos, lastCreate, ec2backend, req, loc, atStart, ensured>>

\* ------------------------------------------------------------- EC2 backend
Rule(port) == [IpProtocol |-> "tcp", FromPort |-> port, ToPort |-> port, CidrIp |-> "0.0.0.0/0"]

InstanceId(n) == "i-" \o ToString(n)

MatchingNone(name, vpc_id) == {}

\* describe_security_groups with the group-name and vpc-id filters
MatchingGroups(name, vpc_id) == {g \in sgs : g.name = name /\ g.vpc = vpc_id}

\* ------------------------------------------------------------- launch_instance
DemoLaunch == [Demo("infra-tool-ec2", None) EXCEPT !.instanceId = "i-0DEMO123"]

ResolveAlways(ami_id) == TRUE

\* if not ami_id: the image is resolved unless the caller supplied one
ResolvesImage(ami_id) == Falsy(ami_id)

launch_begin(w) ==
  /\ workload = "ec2" /\ pc[w] = "idle"
  /\ \E ami_id \in {None, "ami-custom"} :
       LET q == [IdleReq EXCEPT !.op = "launch_instance", !.name = "infra-tool-ec2",
                                !.ami_id = ami_id]
       IN  IF ~ec2 \/ ~ssm
             THEN Handle(w, q, DemoLaunch, <<>>)
             ELSE /\ req' = [req EXCEPT ![w] = q]
                  /\ atStart' = [atStart EXCEPT ![w] = Backend]
                  /\ pc' = [pc EXCEPT ![w] = IF ResolvesImage(ami_id) THEN "get_parameter"
                                                                     ELSE "describe_vpcs"]
                  /\ loc' = [loc EXCEPT ![w] = [NoLoc EXCEPT !.ami_id = ami_id]]
                  /\ UNCHANGED <<calls, resp, ensured>>
  /\ UNCHANGED <<config, repos, lastCreate, s3backend, ec2backend>>

\* The exception e, raised by the call c or by the code after it, reaches
\* the except clause of launch_instance.
launch_raise(w, e, c) ==
  /\ Return(w, Except(e, DemoLaunch), Append(calls[w], c))
  /\ UNCHANGED <<req, loc, atStart>>

\* _latest_al2023_ami
get_parameter(w) ==
  /\ pc[w] = "get_parameter"
  /\ \E e \in Outcomes(NoExc) :
       LET c == Call("ssm.get_parameter", "al2023-ami-kernel-default-x86_64", None, {}, FALSE, e)
       IN  IF e # NoExc THEN launch_raise(w, e, c)
           ELSE Step(w, "describe_vpcs", [loc[w] EXCEPT !.ami_id = "ami-al2023"], c)
  /\ UNCHANGED <<config, repos, lastCreate, s3backend, ec2backend, ensured>>

\* _default_vpc_and_subnet: the default VPC
describe_vpcs(w) ==
  /\ pc[w] = "describe_vpcs"
  /\ \E e \in Outcomes(NoExc) :
       LET c == Call("ec2.describe_vpcs", None, "isDefault", {}, FALSE, e)
           found == {v \in vpcs : v.isDefault}
       IN  IF e # NoExc THEN launch_raise(w, e, c)
           ELSE IF found = {} THEN launch_raise(w, RuntimeError("No default VPC found"), c)
           ELSE \E v \in found :
                  Step(w, "describe_subnets", [loc[w] EXCEPT !.vpc_id = v.id], c)
  /\ UNCHANGED <<config, repos, lastCreate, s3backend, ec2backend, ensured>>

\* _default_vpc_and_subnet: the subnets of the VPC that are default-for-az
describe_subnets(w) ==
  /\ pc[w] = "describe_subnets"
  /\ \E e \in Outcomes(NoExc) :
       LET c == Call("ec2.describe_subnets", loc[w].vpc_id, "default-for-az", {}, FALSE, e)
           found == {s \in subnets : s.vpc = loc[w].vpc_id /\ s.defaultForAz}
       IN  IF e # NoExc THEN launch_raise(w, e, c)
           ELSE IF found = {} THEN Step(w, "describe_subnets_any", loc[w], c)
           ELSE \E s \in found :
                  Step(w, "describe_security_groups", [loc[w] EXCEPT !.subnet_id = s.id], c)
  /\ UNCHANGED <<config, repos, lastCreate, s3backend, ec2backend, ensured>>

\* _default_vpc_and_subnet: any subnet of the VPC
describe_subnets_any(w) ==
  /\ pc[w] = "describe_subnets_any"
  /\ \E e \in Outcomes(NoExc) :
       LET c == Call("ec2.describe_subnets", loc[w].vpc_id, "any", {}, FALSE, e)
           found == {s \in subnets : s.vpc = loc[w].vpc_id}
       IN  IF e # NoExc THEN launch_raise(w, e, c)
           ELSE IF found = {} THEN launch_raise(w, IndexError, c)
           ELSE \E s \in found :
                  Step(w, "describe_security_groups", [loc[w] EXCEPT !.subnet_id = s.id], c)
  /\ UNCHANGED <<config, repos, lastCreate, s3backend, ec2backend, ensured>>

sg_name == "infra-tool-sg"

\* _ensure_sg: the lookup
describe_security_groups(w) ==
  /\ pc[w] = "describe_security_groups"
  /\ \E e \in Outcomes(NoExc) :
       LET c == Call("ec2.describe_security_groups", loc[w].vpc_id, sg_name, {}, FALSE, e)
           found == MatchingGroups(sg_name, loc[w].vpc_id)
           l == [loc[w] EXCEPT !.second = ensured # {}]
       IN  IF e # NoExc THEN launch_raise(w, e, c)
           ELSE IF found = {} THEN Step(w, "create_security_group", l, c)
           ELSE \E g \in found :
                  Step(w, "authorize_security_group_ingress", [l EXCEPT !.sg_id = g.id], c)
  /\ UNCHANGED <<config, repos, lastCreate, s3backend, ec2backend, ensured>>

\* _ensure_sg: the creation, outside the try of the function
create_security_group(w) ==
  /\ pc[w] = "create_security_group"
  /\ \E e \in Outcomes(IF MatchingGroups(sg_name, loc[w].vpc_id) # {}
                         THEN ClientError("InvalidGroup.Duplicate") ELSE NoExc) :
       LET c == Call("ec2.create_security_group", loc[w].vpc_id, sg_name, {}, FALSE, e)
       IN  IF e # NoExc
             THEN launch_raise(w, e, c) /\ UNCHANGED sgs
             ELSE /\ Step(w, "authorize_security_group_ingress",
                          [loc[w] EXCEPT !.sg_id = "sg-1"], c)
                  /\ sgs' = sgs \cup {[id |-> "sg-1", name |-> sg_name, vpc |-> loc[w].vpc_id,
                                       description |-> "Managed by Infra Tool",
                                       rules |-> {}]}
  /\ UNCHANGED <<config, repos, lastCreate, s3backend, vpcs, subnets, instances, ensured>>

IpPermissionsSsh == {Rule(22)}

\* the IpPermissions of the authorize call
IpPermissions == {Rule(22), Rule(80)}

SwallowedNone(e) == FALSE

\* except ClientError as e: the codes that are not raised again
Swallowed(e) ==
  e.type = "ClientError" /\ e.code \in {"InvalidPermission.Duplicate", "InvalidGroup.Duplicate"}

\* _ensure_sg: the ingress rules, and the return
authorize_security_group_ingress(w) ==
  /\ pc[w] = "authorize_security_group_ingress"
  /\ \E g \in {x \in sgs : x.id = loc[w].sg_id} :
     \E e \in Outcomes(IF g.rules \cap IpPermissions # {}
                         THEN ClientError("InvalidPermission.Duplicate") ELSE NoExc) :
       LET c == Call("ec2.authorize_security_group_ingress", g.id, None,
                     {r.FromPort : r \in IpPermissions}, FALSE, e)
       IN  IF e # NoExc /\ ~Swallowed(e)
             THEN launch_raise(w, e, c) /\ UNCHANGED <<sgs, ensured>>
             ELSE /\ Step(w, "run_instances", loc[w], c)
                  /\ sgs' = IF e = NoExc
                              THEN (sgs \ {g}) \cup {[g EXCEPT !.rules = @ \cup IpPermissions]}
                              ELSE sgs
                  /\ ensured' = ensured \cup {[vpc |-> loc[w].vpc_id, name |-> sg_name,
                                               id |-> loc[w].sg_id]}
  /\ UNCHANGED <<config, repos, lastCreate, s3backend, vpcs, subnets, instances>>

run_instances(w) ==
  /\ pc[w] = "run_instances"
  /\ \E e \in Outcomes(IF Len(instances) >= MaxInstances
                         THEN ClientError("InstanceLimitExceeded") ELSE NoExc) :
       LET iid == InstanceId(Len(instances) + 1)
           c == Call("ec2.run_instances", loc[w].subnet_id, loc[w].sg_id, {}, FALSE, e)
       IN  IF e # NoExc
             THEN launch_raise(w, e, c) /\ UNCHANGED instances
             ELSE /\ Step(w, "create_tags", [loc[w] EXCEPT !.iid = iid], c)
                  /\ instances' = Append(instances, [id |-> iid, name |-> None])
  /\ UNCHANGED <<config, repos, lastCreate, s3backend, vpcs, subnets, sgs, ensured>>

\* Resources of the create_tags call
TagResource(iid) == iid

create_tags(w) ==
  /\ pc[w] = "create_tags"
  /\ \E e \in Outcomes(NoExc) :
       LET c == Call("ec2.create_tags", TagResource(loc[w].iid), req[w].name, {}, FALSE, e)
       IN  IF e # NoExc
             THEN launch_raise(w, e, c) /\ UNCHANGED instances
             ELSE /\ Return(w, [Ok(req[w].name, None) EXCEPT !.instanceId = loc[w].iid],
                            Append(calls[w], c))
                  /\ instances' = [i \in 1..Len(instances) |->
                        IF instances[i].id = TagResource(loc[w].iid)
                          THEN [instances[i] EXCEPT !.name = req[w].name]
                          ELSE instances[i]]
                  /\ UNCHANGED <<req, loc, atStart>>
  /\ UNCHANGED <<config, repos, lastCreate, s3backend, vpcs, subnets, sgs, ensured>>

\* ------------------------------------------------------------- list_instances
DemoInstances == <<[instanceId |-> "i-0DEMO1", name |-> "demo-a"],
                   [instanceId |-> "i-0DEMO2", name |-> "demo-b"]>>

list_instances(w) ==
  /\ workload = "ec2" /\ AllIdle
  /\ LET q == [IdleReq EXCEPT !.op = "list_instances"]
     IN  IF ~ec2 THEN Handle(w, q, Listing(DemoInstances), <<>>)
         ELSE \E e \in Outcomes(NoExc) :
                LET c == Call("ec2.describe_instances", None, None, {}, FALSE, e)
                IN  IF e # NoExc
                      THEN Handle(w, q, Except(e, Listing(SubSeq(DemoInstances, 1, 1))), <<c>>)
                      ELSE Handle(w, q,
                             Listing([i \in 1..Len(instances) |->
                                [instanceId |-> instances[i].id, name |-> instances[i].name]]),
                             <<c>>)
  /\ UNCHANGED <<config, repos, lastCreate, s3backend, ec2backend>>

\* ------------------------------------------------------------- clone_repo
\* A string is kept as the sequence of its pieces: the separator "/", the
\* dot ".", a blank " ", and words ("http:", "git", "a", ...), so that what
\* the code tests on it (strip, "/" in, startswith, the regular expression,
\* endswith, basename, splitext) is computed on it.
Has(str, piece) == \E i \in 1..Len(str) : str[i] = piece

RECURSIVE strip(_)
\* str.strip()
strip(str) ==
  IF str = <<>> THEN str
  ELSE IF Head(str) = " " THEN strip(Tail(str))
  ELSE IF str[Len(str)] = " " THEN strip(SubSeq(str, 1, Len(str) - 1))
  ELSE str

\* url.startswith("http")
StartsWithHttp(str) == str # <<>> /\ str[1] = "http:"

\* the pieces made of the characters [a-zA-Z0-9_.\-] only
SafePieces == {".", "git", "a"}

\* SAFE_REPO_RE.match: ^[a-zA-Z0-9_.\-]+/[a-zA-Z0-9_.\-]+$
SAFE_REPO_RE(str) ==
  \E i \in 2..(Len(str) - 1) :
    /\ str[i] = "/"
    /\ \A j \in (1..Len(str)) \ {i} : str[j] \in SafePieces

\* url.endswith(".git")
EndsWithGit(str) ==
  Len(str) >= 2 /\ str[Len(str) - 1] = "." /\ str[Len(str)] = "git"

\* os.path.basename: what follows the last "/"
basename(str) ==
  LET seps == {i \in 1..Len(str) : str[i] = "/"}
  IN  SubSeq(str, IF seps = {} THEN 1 ELSE Max(seps) + 1, Len(str))

\* os.path.splitext(...)[0] of a name without "/": the name up to its last
\* dot, unless only dots come before that dot
splitext(str) ==
  LET dots == {i \in 1..Len(str) : str[i] = "."}
  IN  IF dots = {} THEN str
      ELSE IF \E j \in 1..(Max(dots) - 1) : str[j] # "."
        THEN SubSeq(str, 1, Max(dots) - 1)
      ELSE str

\* f"https://github.com/{url}.git"
GithubUrl(str) == <<"http:", "/", "/", "github", ".", "com", "/">> \o str \o <<".", "git">>

\* name, line 532
RepoName(url) == IF EndsWithGit(url) THEN splitext(basename(url)) ELSE basename(url)

\* A path is the sequence of its components below the root; a component is
\* a name (a string as above).
DotDot == <<".", ".">>

\* REPOS_BASE, resolved: a directory inside the directory the tool runs in
REPOS_BASE == << <<"srv">>, <<"repos">> >>

\* REPOS_BASE / name, for a name without "/": pathlib drops an empty or "."
\* component and keeps ".."
Target(name) == IF name \in {<<>>, <<".">>} THEN REPOS_BASE ELSE Append(REPOS_BASE, name)

RECURSIVE Resolve(_)
\* the directory a path names: ".." steps to the parent
Resolve(path) ==
  IF path = <<>> THEN <<>>
  ELSE LET front == Resolve(SubSeq(path, 1, Len(path) - 1))
       IN  IF path[Len(path)] = DotDot
             THEN SubSeq(front, 1, Len(front) - 1)
             ELSE Append(front, path[Len(path)])

\* the directory d is p or lies below p
Under(d, p) == Len(d) >= Len(p) /\ SubSeq(d, 1, Len(p)) = p

\* target.exists()
Exists(path) == Resolve(path) \in dirs

\* shutil.rmtree(path) removes what lies below the directory, then the
\* directory by its path; a path through a removed directory (one with
\* "..") names nothing any more, the last step raises and the directory
\* itself stays.
RmtreeRaises(path) == Has(path, DotDot)

Rmtree(path) ==
  {d \in dirs : ~Under(d, Resolve(path)) \/ (RmtreeRaises(path) /\ d = Resolve(path))}

\* Repo.clone_from / git clone / mkdir(parents=True): the directory and the
\* missing ones above it
MadeDirs(path) == {SubSeq(Resolve(path), 1, n) : n \in 1..Len(Resolve(path))}

\* the clones on disk
Clones == {d \in dirs : Under(d, REPOS_BASE) /\ d # REPOS_BASE}

NoClone == [url |-> <<>>, name |-> <<>>, target |-> <<>>, removed |-> FALSE,
            written |-> FALSE]

\* The names a url is made of, and the urls a request may carry: one name
\* or two joined by "/", behind "http:/" or not, with blanks around or not.
UrlNames == {<<>>, <<".">>, DotDot, <<"a">>, <<"a", ".", "git">>, <<".", "git">>}

Urls ==
  {ws \o scheme \o body \o ws :
     ws \in {<<>>, <<" ">>},
     scheme \in {<<>>, <<"http:", "/">>},
     body \in UrlNames \cup {a \o <<"/">> \o b : a \in UrlNames, b \in UrlNames}}

\* The clone_repo handler answers r, with locals c.
CloneAnswer(w, r, c) ==
  /\ Handle(w, [IdleReq EXCEPT !.op = "clone_repo"], r, <<>>)
  /\ clone' = c

clone_repo(w) ==
  /\ workload = "repo" /\ AllIdle
  /\ Cardinality(Clones) <= MaxRepos
  /\ \E raw \in Urls, git \in BOOLEAN :
       LET given == strip(raw)
           short == Has(given, "/") /\ ~StartsWithHttp(given)
           url == IF short THEN GithubUrl(given) ELSE given
           name == RepoName(url)
           target == Target(name)
           c == [NoClone EXCEPT !.url = raw]
           d == [c EXCEPT !.name = name, !.target = target, !.removed = Exists(target)]
           left == IF Exists(target) THEN Rmtree(target) ELSE dirs
       IN  IF given = <<>>
             THEN CloneAnswer(w, Error(<<"url required">>), c) /\ UNCHANGED dirs
           ELSE IF short /\ ~SAFE_REPO_RE(given)
             THEN CloneAnswer(w, Error(<<"Invalid repo format">>), c) /\ UNCHANGED dirs
           ELSE IF Exists(target) /\ RmtreeRaises(target)
             THEN /\ CloneAnswer(w, [NoResp EXCEPT !.status = 500], d)
                  /\ dirs' = left
           ELSE /\ CloneAnswer(w, IF git THEN Ok(None, None) ELSE Demo(None, None),
                               [d EXCEPT !.written = TRUE])
                /\ dirs' = left \cup MadeDirs(target)
  /\ UNCHANGED <<config, lastCreate, s3backend, ec2backend>>

\* ------------------------------------------------------------- the server
\* The response is sent and the worker is free again.
Respond(w) ==
  /\ pc[w] = "done"
  /\ pc' = [pc EXCEPT ![w] = "idle"]
  /\ req' = [req EXCEPT ![w] = IdleReq]
  /\ loc' = [loc EXCEPT ![w] = NoLoc]
  /\ calls' = [calls EXCEPT ![w] = <<>>]
  /\ resp' = [resp EXCEPT ![w] = NoResp]
  /\ atStart' = [atStart EXCEPT ![w] = NoSnapshot]
  /\ lastCreate' = IF req[w].op = "create_bucket" /\ resp[w].ok THEN resp[w] ELSE NoResp
  /\ clone' = NoClone
  /\ UNCHANGED <<config, s3backend, ec2backend, ensured, dirs>>

\* ------------------------------------------------------------- specification
Vpc(id, isDefault) == [id |-> id, isDefault |-> isDefault]
Subnet(id, vpc, defaultForAz) == [id |-> id, vpc |-> vpc, defaultForAz |-> defaultForAz]
Group(id, name, vpc, rules) ==
  [id |-> id, name |-> name, vpc |-> vpc, description |-> "set up by hand", rules |-> rules]

\* The buckets a behaviour may start from: none, or a versioned bucket
\* "logs" that holds object versions and delete markers.
InitialBuckets ==
  {[n \in BucketNames |-> NoBucket]} \cup
  {[n \in BucketNames |->
      IF n = "logs"
        THEN [exists |-> TRUE, loc |-> "eu-west-1", versioned |-> TRUE,
              vers |-> vs \ ds, dms |-> ds]
        ELSE NoBucket] :
     vs \in SUBSET Keys, ds \in SUBSET Keys}

\* The subnets an account may hold: of the default VPC, default-for-az or
\* not, and of another VPC.
SomeSubnets == {Subnet("subnet-a", "vpc-1", TRUE), Subnet("subnet-b", "vpc-1", FALSE),
                Subnet("subnet-c", "vpc-2", TRUE)}

\* The security groups an account may start with.
InitialGroups ==
  {{},
   {Group("sg-9", sg_name, "vpc-2", {})},
   {Group("sg-9", sg_name, "vpc-2", {}), Group("sg-0", sg_name, "vpc-1", {Rule(443)})},
   {Group("sg-0", sg_name, "vpc-1", {Rule(22)})}}

\* The subnet layouts: the default VPC holds a default-for-az subnet, holds
\* only another subnet, or holds none.
Layouts == {SomeSubnets,
            {Subnet("subnet-b", "vpc-1", FALSE), Subnet("subnet-c", "vpc-2", TRUE)},
            {Subnet("subnet-c", "vpc-2", TRUE)}}

\* The accounts a behaviour may start from: every network layout with no
\* security group yet, and the full layout with each set of groups.
InitialAccounts ==
  {[vpcs |-> v, subnets |-> s, sgs |-> {}] :
     v \in {{Vpc("vpc-1", TRUE), Vpc("vpc-2", FALSE)}, {Vpc("vpc-2", FALSE)}},
     s \in Layouts}
  \cup
  {[vpcs |-> {Vpc("vpc-1", TRUE), Vpc("vpc-2", FALSE)}, subnets |-> SomeSubnets, sgs |-> g] :
     g \in InitialGroups}

IdleWorkers ==
  /\ pc = [w \in Workers |-> "idle"]
  /\ req = [w \in Workers |-> IdleReq]
  /\ loc = [w \in Workers |-> NoLoc]
  /\ calls = [w \in Workers |-> <<>>]
  /\ resp = [w \in Workers |-> NoResp]
  /\ atStart = [w \in Workers |-> NoSnapshot]
  /\ ensured = {}
  /\ lastCreate = NoResp
  /\ clone = NoClone

\* The directories at start: REPOS_BASE (line 43 makes it), the directory
\* above it with the tool's own files beside it, and a clone or none.
InitialDirs == {<< <<"srv">> >>, REPOS_BASE, << <<"srv">>, <<"app">> >>}

InitS3 ==
  /\ workload = "s3"
  /\ clients \in {0, 1}
  /\ appRegion \in {"eu-west-3", "us-east-1"}
  /\ buckets \in InitialBuckets
  /\ vpcs = {} /\ subnets = {} /\ sgs = {} /\ instances = <<>>
  /\ dirs = InitialDirs

InitEC2 ==
  /\ workload = "ec2"
  /\ clients \in {1, 2, 3}
  /\ appRegion = "eu-west-3"
  /\ buckets = [n \in BucketNames |-> NoBucket]
  /\ \E a \in InitialAccounts : vpcs = a.vpcs /\ subnets = a.subnets /\ sgs = a.sgs
  /\ instances = <<>>
  /\ dirs = InitialDirs

InitRepo ==
  /\ workload = "repo"
  /\ clients = 0
  /\ appRegion = "eu-west-3"
  /\ buckets = [n \in BucketNames |-> NoBucket]
  /\ vpcs = {} /\ subnets = {} /\ sgs = {} /\ instances = <<>>
  /\ dirs \in {InitialDirs, InitialDirs \cup {Append(REPOS_BASE, <<"a">>)}}

Init == (InitS3 \/ InitEC2 \/ InitRepo) /\ IdleWorkers

\* The worker that serves the handlers run one request at a time.
Serial == "w1"

Next ==
  \/ create_bucket(Serial)
  \/ upload_to_bucket(Serial)
  \/ list_buckets(Serial)
  \/ delete_bucket_begin(Serial)
  \/ versions_list(Serial)
  \/ versions_delete(Serial)
  \/ objects_list(Serial)
  \/ objects_delete(Serial)
  \/ delete_bucket_call(Serial)
  \/ list_instances(Serial)
  \/ clone_repo(Serial)
  \/ \E w \in Workers :
       \/ launch_begin(w)
       \/ get_parameter(w)
       \/ describe_vpcs(w)
       \/ describe_subnets(w)
       \/ describe_subnets_any(w)
       \/ describe_security_groups(w)
       \/ create_security_group(w)
       \/ authorize_security_group_ingress(w)
       \/ run_instances(w)
       \/ create_tags(w)
       \/ Respond(w)

Spec == Init /\ [][Next]_vars

\* ------------------------------------------------------------- claims
Done(w) == pc[w] = "done"

Handles(w, op) == req[w].op = op

Last(w) == calls[w][Len(calls[w])]

Indices(w) == 1..Len(calls[w])

CallsOf(w, api) == {i \in Indices(w) : calls[w][i].api = api}

\* The region create_bucket targets: the request's, else the configured one.
TargetRegion(w) == IF Falsy(req[w].region) THEN appRegion ELSE req[w].region

\* The one call of a create_bucket request is the create call on the named
\* bucket, with a location constraint equal to the region unless the region
\* is us-east-1, and then with none.
OneCreateCall(w) ==
  /\ Len(calls[w]) = 1
  /\ calls[w][1].api = "s3.create_bucket"
  /\ calls[w][1].target = req[w].name
  /\ calls[w][1].detail = IF TargetRegion(w) = "us-east-1" THEN None ELSE TargetRegion(w)

\* C1 as stated: every create_bucket request with a non-empty bucket_name
\* issues exactly one create-bucket call, with a location constraint equal to
\* the region R unless R is "us-east-1", and then with none.
C1_Original ==
  \A w \in Workers :
    Done(w) /\ Handles(w, "create_bucket") /\ ~Falsy(req[w].name) => OneCreateCall(w)

\* C1 as amended: when the S3 client was constructed, create_bucket with a
\* non-empty bucket_name issues exactly one create-bucket call, with a
\* location constraint equal to R unless R is "us-east-1", and then with
\* none; when it was not, the request issues no call and is answered with the
\* demo success.
C1_CreateBucketCall ==
  \A w \in Workers :
    Done(w) /\ Handles(w, "create_bucket") /\ ~Falsy(req[w].name) =>
      IF s3 THEN OneCreateCall(w)
            ELSE calls[w] = <<>> /\ resp[w] = Demo(req[w].name, TargetRegion(w))

C1_Witness ==
  \E w \in Workers :
    /\ Done(w) /\ Handles(w, "create_bucket") /\ s3
    /\ req[w].region = None /\ appRegion = "us-east-1"
    /\ Len(calls[w]) = 1 /\ calls[w][1].detail = None
    /\ resp[w] = Ok(req[w].name, "us-east-1")
    /\ buckets[req[w].name].exists

\* The calls of _ensure_sg.
ReconcileApis == {"ec2.describe_security_groups", "ec2.create_security_group",
                  "ec2.authorize_security_group_ingress"}

Duplicates == {ClientError("InvalidPermission.Duplicate"), ClientError("InvalidGroup.Duplicate")}

\* Worker w's _ensure_sg call has returned.
Reconciled(w) ==
  \E i \in CallsOf(w, "ec2.authorize_security_group_ingress") :
    calls[w][i].exc \in {NoExc} \cup Duplicates

\* C2: reconciliation is idempotent: the _ensure_sg calls on a network and a
\* policy name all return the same policy id; a call that starts after
\* another has returned (the second of two in sequence) raises nothing of its
\* own (only a fault injected into one of its calls ends it), creates no
\* security group and leaves every group's rules as they are.
C2_Idempotent ==
  /\ [](/\ \A x \in ensured, y \in ensured :
             x.vpc = y.vpc /\ x.name = y.name => x.id = y.id
        /\ \A w \in Workers :
             loc[w].second /\ Done(w) /\ calls[w] # <<>> =>
               (Last(w).api \in ReconcileApis /\ Failed(Last(w))
                  => Last(w).exc \in InjectedFaults))
  /\ [][\A w \in Workers :
          loc[w].second /\ pc[w] # pc'[w] /\ pc[w] \notin {"idle", "done"} => sgs' = sgs]_vars

C2_Witness ==
  \E w \in Workers :
    /\ loc[w].second /\ pc[w] = "run_instances" /\ Reconciled(w)
    /\ Last(w).exc = ClientError("InvalidPermission.Duplicate")
    /\ \E x \in ensured : x.id = loc[w].sg_id

\* C3 as stated: a "rule already exists" or "duplicate group" answer to a
\* reconciliation call never fails the launch request.
C3_DuplicateIsSuccess ==
  \A w \in Workers :
    Done(w) /\ Handles(w, "launch_instance") /\ calls[w] # <<>> =>
      ~(Last(w).api \in ReconcileApis /\ Last(w).exc \in Duplicates /\ resp[w].status = 400)

\* The groups this program created.
Managed == {g \in sgs : g.description = "Managed by Infra Tool"}

\* C4: once a reconciliation has returned on a network that had no policy
\* named infra-tool-sg (so that the policy is one this program created),
\* exactly one policy of that name is scoped to the network, and its rules
\* are inbound TCP 22 and TCP 80 from 0.0.0.0/0 and nothing else; no step
\* removes a rule from a group or removes a group.
C4_OnePolicy ==
  /\ [](\A g \in Managed :
          (\E x \in ensured : x.id = g.id) =>
            /\ {h \in sgs : h.name = g.name /\ h.vpc = g.vpc} = {g}
            /\ g.name = "infra-tool-sg"
            /\ g.rules = {[IpProtocol |-> "tcp", FromPort |-> p, ToPort |-> p,
                           CidrIp |-> "0.0.0.0/0"] : p \in {22, 80}})
  /\ [][\A g \in sgs : \E h \in sgs' : h.id = g.id /\ h.vpc = g.vpc /\ g.rules \subseteq h.rules]_vars

C4_Witness ==
  /\ Managed # {}
  /\ \E w \in Workers : loc[w].second /\ Reconciled(w)
  /\ \A g \in Managed : Cardinality(g.rules) = 2 /\ \E x \in ensured : x.id = g.id

\* C5 as stated: when reading the managed "latest" parameter fails, the
\* resolver goes on to search the provider's images.
C5_FallbackSearch ==
  \A w \in Workers :
    Done(w) /\ calls[w] # <<>> /\ calls[w][1].api = "ssm.get_parameter" /\ Failed(calls[w][1])
      => Len(calls[w]) >= 2 /\ calls[w][2].api = "ec2.describe_images"

\* The place of a call in the launch sequence.
Rank(api) ==
  CASE api = "ssm.get_parameter" -> 1
    [] api = "ec2.describe_vpcs" -> 2
    [] api = "ec2.describe_subnets" -> 3
    [] api = "ec2.describe_security_groups" -> 4
    [] api = "ec2.create_security_group" -> 5
    [] api = "ec2.authorize_security_group_ingress" -> 6
    [] api = "ec2.run_instances" -> 7
    [] api = "ec2.create_tags" -> 8
    [] OTHER -> 0

\* The call failed and its step with it: a duplicate answer to the
\* authorize call is swallowed and the step goes on.
StepFailed(c) ==
  Failed(c) /\ ~(c.api = "ec2.authorize_security_group_ingress" /\ c.exc \in Duplicates)

\* C6: the calls of a launch request come in the order image resolution
\* (present exactly when no ami_id was supplied), network and subnet
\* discovery, reconciliation, one create-instance call, one create-tags call
\* on the returned instance id; a failed step is the request's last call, so
\* create-instance follows only successful earlier steps and create-tags only
\* a successful create-instance.
C6_LaunchOrder ==
  \A w \in Workers :
    Handles(w, "launch_instance") =>
      LET cs == calls[w] IN
      /\ \A i \in Indices(w) : Rank(cs[i].api) > 0
      /\ \A i \in Indices(w), j \in Indices(w) :
           i < j => \/ Rank(cs[i].api) < Rank(cs[j].api)
                    \/ cs[i].api = "ec2.describe_subnets" /\ cs[j].api = "ec2.describe_subnets"
                         /\ j = i + 1 /\ cs[i].detail = "default-for-az" /\ cs[j].detail = "any"
      /\ \A i \in Indices(w) : StepFailed(cs[i]) => i = Len(cs)
      /\ CallsOf(w, "ssm.get_parameter") =
           (IF Falsy(req[w].ami_id) /\ cs # <<>> THEN {1} ELSE {})
      /\ \A i \in CallsOf(w, "ec2.run_instances") :
           /\ \A api \in {"ec2.describe_vpcs", "ec2.describe_subnets",
                          "ec2.describe_security_groups",
                          "ec2.authorize_security_group_ingress"} :
                \E j \in CallsOf(w, api) : j < i
           /\ cs[i].target = loc[w].subnet_id /\ cs[i].detail = loc[w].sg_id
           /\ loc[w].ami_id # None
      /\ \A i \in CallsOf(w, "ec2.create_tags") :
           /\ i > 1 /\ cs[i - 1].api = "ec2.run_instances" /\ ~Failed(cs[i - 1])
           /\ cs[i].target = loc[w].iid
           /\ \E k \in 1..Len(instances) : instances[k].id = cs[i].target
      /\ Done(w) /\ cs # <<>> /\ StepFailed(Last(w)) => ~(resp[w].ok /\ ~resp[w].demo)
      /\ Done(w) /\ resp[w].ok /\ ~resp[w].demo =>
           cs # <<>> /\ Last(w).api = "ec2.create_tags" /\ ~Failed(Last(w))

C6_Witness ==
  \E w \in Workers :
    /\ Done(w) /\ Handles(w, "launch_instance") /\ Falsy(req[w].ami_id)
    /\ resp[w].ok /\ ~resp[w].demo
    /\ [i \in 1..Len(calls[w]) |-> calls[w][i].api] =
         <<"ssm.get_parameter", "ec2.describe_vpcs", "ec2.describe_subnets",
           "ec2.describe_subnets", "ec2.describe_security_groups",
           "ec2.create_security_group", "ec2.authorize_security_group_ingress",
           "ec2.run_instances", "ec2.create_tags">>

\* The phase of bucket deletion a call belongs to: (a) 1, (b) 2, (c) 3.
PhaseOf(c) ==
  CASE c.api = "s3.list_object_versions" -> 1
    [] c.api = "s3.delete_objects" /\ c.detail = "versions" -> 1
    [] c.api = "s3.list_objects_v2" -> 2
    [] c.api = "s3.delete_objects" /\ c.detail = "objects" -> 2
    [] c.api = "s3.delete_bucket" -> 3
    [] OTHER -> 0

\* The calls of a delete request come phase after phase, and a finished
\* request has listed versions, then listed objects, then issued its one
\* delete-bucket call, last.
DeletedInOrder(w) ==
  /\ \A i \in Indices(w) : PhaseOf(calls[w][i]) > 0
  /\ \A i \in Indices(w), j \in Indices(w) :
       i < j => PhaseOf(calls[w][i]) <= PhaseOf(calls[w][j])
  /\ Done(w) =>
       /\ CallsOf(w, "s3.delete_bucket") = {Len(calls[w])}
       /\ CallsOf(w, "s3.list_object_versions") # {}
       /\ CallsOf(w, "s3.list_objects_v2") # {}

\* C7 as stated: every delete request runs (a) versions and delete markers,
\* (b) current objects, (c) the bucket, with exactly one delete-bucket call,
\* issued after (a) and (b) have ended, whatever was raised in (a).
C7_Original ==
  \A w \in Workers : Handles(w, "delete_bucket") => DeletedInOrder(w)

\* C7 as amended: when the S3 client was constructed, a delete request runs
\* (a), (b), (c) in that order, with exactly one delete-bucket call, issued
\* after (a) and (b) have ended, whatever was raised in (a) or (b); when it
\* was not, the request issues no call and is answered with the demo success.
C7_DeleteOrder ==
  \A w \in Workers :
    Handles(w, "delete_bucket") =>
      IF s3 THEN DeletedInOrder(w)
            ELSE calls[w] = <<>> /\ (Done(w) => resp[w] = Demo(req[w].name, None))

C7_Witness ==
  \E w \in Workers :
    /\ Done(w) /\ Handles(w, "delete_bucket") /\ s3
    /\ \E i \in Indices(w) : PhaseOf(calls[w][i]) = 1 /\ Failed(calls[w][i])
    /\ \E i \in CallsOf(w, "s3.delete_objects") : calls[w][i].detail = "objects"
    /\ resp[w] = Ok(req[w].name, None)

\* C8: a delete request for a bucket that does not exist (any more) changes
\* no bucket, issues no create-bucket call, ends with its delete-bucket call,
\* is never answered with a plain success, and is answered with the error
\* that carries the backend's message when that call is answered NoSuchBucket.
C8_DeleteMissing ==
  \A w \in Workers :
    Done(w) /\ Handles(w, "delete_bucket") /\ s3
      /\ ~atStart[w].buckets[req[w].name].exists =>
        /\ buckets = atStart[w].buckets
        /\ CallsOf(w, "s3.create_bucket") = {}
        /\ calls[w] # <<>> /\ Last(w).api = "s3.delete_bucket"
        /\ ~(resp[w].ok /\ ~resp[w].demo)
        /\ Last(w).exc = ClientError("NoSuchBucket") =>
             resp[w] = Error(<<"An error occurred", "NoSuchBucket">>)

C8_Witness ==
  \E w \in Workers :
    /\ Done(w) /\ Handles(w, "delete_bucket") /\ s3
    /\ ~atStart[w].buckets[req[w].name].exists
    /\ Last(w).exc = ClientError("NoSuchBucket")
    /\ resp[w].status = 400

\* C9 as stated: when the delete_objects call on one page's batch fails and
\* the listing of the phase has later pages, the phase goes on to them.
C9_BatchIsolation ==
  \A w \in Workers :
    Done(w) /\ Handles(w, "delete_bucket") =>
      \A i \in CallsOf(w, "s3.delete_objects") :
        (Failed(calls[w][i]) \/ calls[w][i].errors) /\ calls[w][i].more =>
          \E j \in Indices(w) :
            j > i /\ PhaseOf(calls[w][j]) = PhaseOf(calls[w][i])

EmptyingApis == {"s3.list_object_versions", "s3.list_objects_v2", "s3.delete_objects"}

\* The failures the claim sets aside: a conflict swallowed in reconciliation
\* and an error suppressed during bucket emptying.
SetAside(c) ==
  \/ c.api = "ec2.authorize_security_group_ingress" /\ c.exc \in Duplicates
  \/ c.api \in EmptyingApis

\* C10 as stated: after any other failure of a remote call the request is
\* answered with a failure that carries the backend's message.
C10_Original ==
  \A w \in Workers :
    Done(w) =>
      \A i \in Indices(w) :
        Failed(calls[w][i]) /\ ~SetAside(calls[w][i]) =>
          resp[w] = Error(Str(calls[w][i].exc))

\* The answers of the demo fallback.
DemoAnswers ==
  {r \in {resp[w] : w \in Workers} :
     r.status = 200 /\ (r.demo \/ r.items \in {DemoBuckets, SubSeq(DemoInstances, 1, 1)})}

\* C10 as amended: a failure of a remote call, other than a conflict
\* swallowed in reconciliation, an error suppressed during bucket emptying
\* and a failed region lookup of the bucket listing, ends the request: when
\* it is one the demo fallback recognises (missing credentials, unreachable
\* endpoint, missing region) the request is answered with the handler's demo
\* success, and otherwise with a failure that carries the backend's message.
C10_FailurePropagates ==
  \A w \in Workers :
    Done(w) =>
      \A i \in Indices(w) :
        LET c == calls[w][i] IN
        Failed(c) /\ ~SetAside(c) /\ c.api # "s3.get_bucket_location" =>
          /\ i = Len(calls[w])
          /\ IF c.exc.type \in {"NoCredentialsError", "EndpointConnectionError", "NoRegionError"}
               THEN resp[w] \in DemoAnswers
               ELSE resp[w] = Error(Str(c.exc))

C10_Witness ==
  \E w \in Workers :
    /\ Done(w) /\ Handles(w, "launch_instance") /\ calls[w] # <<>>
    /\ Last(w).api = "ec2.run_instances"
    /\ Last(w).exc = ClientError("AccessDenied")
    /\ resp[w] = Error(<<"An error occurred", "AccessDenied">>)

\* The calls of worker w's request that look up the region of bucket n.
Lookups(w, n) == {j \in CallsOf(w, "s3.get_bucket_location") : calls[w][j].target = n}

\* C11: when the backend answers the list call of a bucket listing, the
\* listing succeeds with exactly one entry per bucket the backend holds,
\* whichever region lookups fail; the entry of a bucket whose lookup failed
\* has region "unknown", and every other entry has the bucket's region,
\* "us-east-1" when its location constraint is empty.
C11_ListingIsolation ==
  \A w \in Workers :
    Done(w) /\ Handles(w, "list_buckets") /\ calls[w] # <<>> /\ ~Failed(calls[w][1]) =>
      LET held == {n \in BucketNames : buckets[n].exists}
          items == resp[w].items
      IN  /\ resp[w].status = 200
          /\ Len(items) = Cardinality(held)
          /\ {items[i].name : i \in 1..Len(items)} = held
          /\ \A i \in 1..Len(items) :
               LET n == items[i].name IN
               /\ Cardinality(Lookups(w, n)) = 1
               /\ \A j \in Lookups(w, n) :
                    items[i].region =
                      IF Failed(calls[w][j]) THEN "unknown"
                      ELSE IF buckets[n].loc \in {None, ""} THEN "us-east-1"
                      ELSE buckets[n].loc

C11_Witness ==
  \E w \in Workers :
    /\ Done(w) /\ Handles(w, "list_buckets") /\ resp[w].status = 200
    /\ Len(resp[w].items) = 2
    /\ \E i, k \in 1..2 :
         /\ resp[w].items[i].region = "unknown"
         /\ resp[w].items[k].region = "us-east-1"
         /\ buckets[resp[w].items[k].name].loc = None
         /\ \E j \in Lookups(w, resp[w].items[i].name) : Failed(calls[w][j])

\* The listing of worker w holds an entry with this name and region.
Lists(w, name, region) ==
  \E i \in 1..Len(resp[w].items) :
    resp[w].items[i].name = name /\ resp[w].items[i].region = region

\* The GET of worker w follows a create_bucket request answered with a
\* success, and no call of the GET failed.
FollowsCreate(w) ==
  /\ Done(w) /\ Handles(w, "list_buckets")
  /\ lastCreate.ok
  /\ \A i \in Indices(w) : ~Failed(calls[w][i])

\* C12 as stated: a GET /api/s3 that follows a successful POST /api/s3 for a
\* bucket name and a region R holds an entry with that name and region R.
C12_Original ==
  \A w \in Workers :
    FollowsCreate(w) => Lists(w, lastCreate.name, lastCreate.region)

\* C12 as amended: a GET /api/s3 whose calls succeed and that follows a
\* POST /api/s3 answered with a success that is not the demo success holds
\* an entry with the bucket name and the region R of the POST, R =
\* "us-east-1" included; after a POST answered with the demo success no
\* bucket was created by it, and the GET lists what the backend holds (or
\* the demo buckets when the S3 client was not constructed).
C12_RoundTrip ==
  \A w \in Workers :
    FollowsCreate(w) =>
      IF ~lastCreate.demo
        THEN calls[w] # <<>> /\ Lists(w, lastCreate.name, lastCreate.region)
      ELSE IF ~s3
        THEN calls[w] = <<>> /\ resp[w].items = DemoBuckets
      ELSE \A i \in 1..Len(resp[w].items) : buckets[resp[w].items[i].name].exists

C12_Witness ==
  \E w \in Workers :
    /\ FollowsCreate(w) /\ ~lastCreate.demo
    /\ lastCreate.region = "us-east-1" /\ appRegion = "eu-west-3"
    /\ buckets[lastCreate.name].loc = None
    /\ Lists(w, lastCreate.name, "us-east-1")

\* What _default_vpc_and_subnet returned to worker w is right: the network
\* is one marked default, the subnet belongs to it, and it is a
\* default-for-availability-zone subnet whenever the network has one.
ResolvedRight(w) ==
  /\ loc[w].vpc_id # None => \E v \in vpcs : v.id = loc[w].vpc_id /\ v.isDefault
  /\ loc[w].subnet_id # None =>
       \E n \in subnets :
         /\ n.id = loc[w].subnet_id /\ n.vpc = loc[w].vpc_id
         /\ n.defaultForAz \/ ~\E m \in subnets : m.vpc = loc[w].vpc_id /\ m.defaultForAz

\* The resolver of worker w's request found no network marked default.
NoDefaultFound(w) ==
  /\ Done(w) /\ calls[w] # <<>>
  /\ Last(w).api = "ec2.describe_vpcs" /\ ~Failed(Last(w))

\* The resolver of worker w's request found a default network with zero
\* subnets: its second subnet query returned, and returned none.
NoSubnetFound(w) ==
  /\ Done(w) /\ calls[w] # <<>>
  /\ Last(w).api = "ec2.describe_subnets" /\ Last(w).detail = "any" /\ ~Failed(Last(w))

\* The part of C13 the code keeps: the failure without a default network,
\* and the network and subnet returned.
C13_Resolved ==
  \A w \in Workers :
    Handles(w, "launch_instance") =>
      /\ ResolvedRight(w)
      /\ NoDefaultFound(w) =>
           /\ ~\E v \in vpcs : v.isDefault
           /\ resp[w] = Error(<<"No default VPC found">>)
      /\ NoSubnetFound(w) =>
           /\ ~\E n \in subnets : n.vpc = loc[w].vpc_id
           /\ resp[w].status = 400

\* C13 as stated: the resolver fails with a no-default-network error when no
\* network is marked default; otherwise it returns that network with a
\* subnet of it, default-for-availability-zone whenever one exists; and when
\* the network has zero subnets it fails with an error that says no subnet
\* is available (and not with the error of indexing an empty list).
C13_NetworkResolution ==
  \A w \in Workers :
    Handles(w, "launch_instance") =>
      /\ ResolvedRight(w)
      /\ NoDefaultFound(w) => resp[w] = Error(<<"No default VPC found">>)
      /\ NoSubnetFound(w) =>
           resp[w].status = 400 /\ resp[w].error # <<"list index out of range">>

\* The calls a launch request issues: lookups, creations, an authorization
\* and a tagging; no deletion of a group or an instance, no revocation.
LaunchApis ==
  {"ssm.get_parameter", "ec2.describe_vpcs", "ec2.describe_subnets",
   "ec2.describe_security_groups", "ec2.create_security_group",
   "ec2.authorize_security_group_ingress", "ec2.run_instances", "ec2.create_tags"}

\* The create-instance step of worker w's request failed.
CreateInstanceFailed(w) ==
  /\ Done(w) /\ Handles(w, "launch_instance") /\ calls[w] # <<>>
  /\ Last(w).api = "ec2.run_instances" /\ Failed(Last(w))

\* C14: a launch request issues no delete or revoke call; the step at which
\* it fails changes no security group and no instance, and no step removes a
\* group or one of its rules; so after a failure of the create-instance step
\* the policy the reconciliation found or created is still there with its
\* ingress rules (TCP 22 and 80 when this program created it), and a launch
\* that starts after a reconciliation has returned finds that policy, issues
\* no create call for it and uses its id.
C14_NoRollback ==
  /\ [](\A w \in Workers :
          Handles(w, "launch_instance") =>
            /\ \A i \in Indices(w) : calls[w][i].api \in LaunchApis
            /\ CreateInstanceFailed(w) =>
                 \E g \in sgs :
                   /\ g.id = loc[w].sg_id /\ g.name = "infra-tool-sg" /\ g.vpc = loc[w].vpc_id
                   /\ g.rules \cap {Rule(22), Rule(80)} # {}
                   /\ g \in Managed => g.rules = {Rule(22), Rule(80)}
            /\ loc[w].second /\ loc[w].sg_id # None =>
                 /\ CallsOf(w, "ec2.create_security_group") = {}
                 /\ \E x \in ensured : x.id = loc[w].sg_id)
  /\ [][\A w \in Workers :
          /\ req'[w].op = "launch_instance" /\ pc[w] # "done" /\ pc'[w] = "done"
          /\ ~(resp'[w].ok /\ ~resp'[w].demo)
          => sgs' = sgs /\ instances' = instances /\ vpcs' = vpcs /\ subnets' = subnets]_vars
  /\ [][\A g \in sgs : \E h \in sgs' : h.id = g.id /\ h.name = g.name /\ g.rules \subseteq h.rules]_vars

C14_Witness ==
  \E w \in Workers :
    /\ CreateInstanceFailed(w) /\ resp[w].status = 400
    /\ loc[w].second /\ CallsOf(w, "ec2.create_security_group") = {}
    /\ instances = <<>>
    /\ \A v \in Workers \ {w} : pc[v] = "idle"
    /\ \E g \in Managed : g.id = loc[w].sg_id /\ g.rules = {Rule(22), Rule(80)}

\* The path names a directory strictly inside REPOS_BASE.
StrictlyInside(path) == Under(Resolve(path), REPOS_BASE) /\ Resolve(path) # REPOS_BASE

\* The url is of a kind the claim names: an owner/repo identifier or a
\* string that starts with "http".
NamedUrl(url) == SAFE_REPO_RE(strip(url)) \/ StartsWithHttp(strip(url))

\* C15 as stated: for every owner/repo identifier or url starting with
\* "http" that clone_repo accepts, the directory it removes before cloning
\* and the directory it clones or writes into are strictly inside
\* REPOS_BASE, and REPOS_BASE and the directories outside it stay.
C15_InsideBase ==
  \A w \in Workers :
    Done(w) /\ Handles(w, "clone_repo") /\ NamedUrl(clone.url) =>
      /\ clone.removed \/ clone.written => StrictlyInside(clone.target)
      /\ \A d \in InitialDirs : d \in dirs

====
